---- MODULE Spec2Model ----
(***************************************************************************)
(* Annual-report pipeline of equity-report-ai: link discovery and          *)
(* download (scrapeAndDownloadReports, isAnnualReport, extractYear,        *)
(* extractDirectPdfUrl, downloadPdf), AI-assisted parsing and              *)
(* consolidation (parseFinancialStatements), CSV export (CSVExporter),     *)
(* with the routes that call them.                                         *)
(***************************************************************************)
EXTENDS Integers, Sequences, FiniteSets, TLC

VARIABLES
    pc,              \* position of the download request handler
    allPdfLinks,     \* raw links the page scan returned
    linkIdx,         \* index of the link the filter loop is at
    validReports,    \* retained candidates
    dlIdx,           \* index of the candidate the download loop is at
    disk,            \* storage/annual_reports/<company>: paths that exist
    partialFiles,    \* paths whose content is an unfinished write
    downloadedYears, \* years pushed by the download loop
    log,             \* what this run did for each year: <<year, event>>
    response,        \* what the route answered
    runs,            \* download requests started so far
    browser,         \* the browser puppeteer.launch returned
    auxPages,        \* iframe and extractor pages that are open
    iframeSources    \* iframes of the page that are still to be scanned

browserVars == <<browser, auxPages, iframeSources>>

dlVars == <<pc, allPdfLinks, linkIdx, validReports, dlIdx, disk, partialFiles,
            downloadedYears, log, response, runs, browserVars>>

VARIABLES
    ppc,             \* position of the parse request handler
    files,           \* the PDF files listed in the reports directory
    fileIdx,         \* index of the file the parse loop is at
    parseResults,    \* results pushed by the parse loop
    parsedData,      \* storage/parsed_data/<company>/<year>.json records
    compiled,        \* storage/compiled_data/<company>.json
    sortedResults,   \* normalizeFinancialData: the sorted results
    normIdx,         \* normalizeFinancialData: index of the result it is at
    statements,      \* normalizeFinancialData: the maps being built
    processedYears,  \* normalizeFinancialData: years seen per statement type
    presponse,       \* what the parse route answered
    pruns,           \* parse requests started so far
    attempted,       \* history: files handed to parsePDFWithAI in this run
    called,          \* history: files sent to the extraction service, in order
    succeeded,       \* history: files parsePDFWithAI returned a result for
    last,            \* history: the latest file and what happened to it
    authFailedAt,    \* history: Len(called) when a call first failed on 401
    rateLimited,     \* history: a call failed on 429 in this run
    compiledAtStart  \* history: compiled as the run found it

parseVars == <<ppc, files, fileIdx, parseResults, parsedData, compiled,
               sortedResults, normIdx, statements, processedYears, presponse,
               pruns, attempted, called, succeeded, last, authFailedAt,
               rateLimited, compiledAtStart>>

VARIABLES
    requests,        \* download requests for one company that overlap
    arg,             \* input an exporter or classifier function is applied to
    out              \* what the function returned

otherVars == <<requests, arg, out>>

vars == <<dlVars, parseVars, otherVars>>

-----------------------------------------------------------------------------
(* Bounds *)

MaxTail == 2
MaxLinks == 2
MaxRuns == 2
MaxFiles == 2
MaxIframes == 2
MaxRequests == 2
MaxResults == 3
MaxApplications == 3
MaxCompanies == 2
MaxFieldLen == 2
MaxCandidates == 3
MaxTokens == 2
MaxProse == 2

(* Program constants *)

currentYear == 2024
WindowLength == 10
ExtractMinYear == 2014
ExtractMaxYear == 2024
MinTextLength == 1000

NoYear == 0

NoResponse == [status |-> 0, success |-> FALSE, years |-> <<>>, totalFiles |-> 0]

StatementTypes == {"income_statement", "balance_sheet", "cash_flow"}

EmptyStatements == [t \in StatementTypes |-> <<>>]

NoCompiled ==
    [written |-> FALSE, statements |-> EmptyStatements, years_covered |-> <<>>,
     total_files |-> 0, parsed_at |-> 0]

NoError == [message |-> "none", status |-> 0]

NoParseResponse == [status |-> 0, success |-> FALSE, error |-> "none"]

NoFile == [file |-> "none", outcome |-> "none"]

(* The parse handler is not part of the specification. *)
ParseOff ==
    /\ ppc = "off"
    /\ files = <<>>
    /\ fileIdx = 1
    /\ parseResults = <<>>
    /\ parsedData = {}
    /\ compiled = NoCompiled
    /\ sortedResults = <<>>
    /\ normIdx = 1
    /\ statements = EmptyStatements
    /\ processedYears = [t \in StatementTypes |-> {}]
    /\ presponse = NoParseResponse
    /\ pruns = 0
    /\ attempted = {}
    /\ called = <<>>
    /\ succeeded = {}
    /\ last = NoFile
    /\ authFailedAt = 0
    /\ rateLimited = FALSE
    /\ compiledAtStart = NoCompiled

(* No overlapping requests and no exporter or classifier call are part of
   the specification. *)
OthersOff ==
    /\ requests = <<>>
    /\ arg = <<>>
    /\ out = <<>>

-----------------------------------------------------------------------------
(* A raw link {text, href}, by the features the code reads from it:        *)
(*   form       text contains "20-f" or "10-k"                             *)
(*   amend      text contains "amendment" or "/a"                          *)
(*   annualKw   text or href contains one of annualKeywords                *)
(*   excludeKw  text or href contains one of excludeKeywords               *)
(*   annualWord text or href contains "annual"                             *)
(*   years      the \b20dd\b tokens of `${text} ${href}`, in order         *)
(*   ext        path.extname of the href's path ("" when it has none)      *)
(*   viewer     href contains "/view/", "viewer" or the funkton host       *)

Link(form, amend, annualKw, excludeKw, annualWord, years, ext, viewer) ==
    [form |-> form, amend |-> amend, annualKw |-> annualKw,
     excludeKw |-> excludeKw, annualWord |-> annualWord, years |-> years,
     ext |-> ext, viewer |-> viewer]

AnnualLink(years, ext, viewer) ==
    Link(FALSE, FALSE, TRUE, FALSE, TRUE, years, ext, viewer)

InterimLink(years) ==
    Link(FALSE, FALSE, TRUE, TRUE, TRUE, years, ".pdf", FALSE)

targetYears == {currentYear - i : i \in 0..(WindowLength - 1)}

isAnnualReport(link) ==
    IF link.form
    THEN ~link.amend
    ELSE /\ link.annualKw \/ (link.years # <<>> /\ link.annualWord)
         /\ ~link.excludeKw

extractYear(link) ==
    IF link.years = <<>> THEN NoYear
    ELSE LET year == Head(link.years)
         IN IF year >= ExtractMinYear /\ year <= ExtractMaxYear
            THEN year ELSE NoYear

HasYear(reports, year) == \E i \in 1..Len(reports) : reports[i].year = year

Candidate(link, year) == [year |-> year, ext |-> link.ext, viewer |-> link.viewer]

KeepAll(reports, link) ==
    LET year == extractYear(link)
    IN IF ~isAnnualReport(link) THEN reports
       ELSE IF year = NoYear \/ year \notin targetYears THEN reports
       ELSE Append(reports, Candidate(link, year))

(* One iteration of the candidate filter loop. *)
FilterOne(reports, link) ==
    LET year == extractYear(link)
    IN IF ~isAnnualReport(link) THEN reports
       ELSE IF year = NoYear \/ year \notin targetYears THEN reports
       ELSE IF HasYear(reports, year) THEN reports
       ELSE Append(reports, Candidate(link, year))

RECURSIVE InsertDescUnstable(_, _)
InsertDescUnstable(sorted, r) ==
    IF sorted = <<>> THEN <<r>>
    ELSE IF Head(sorted).year > r.year
         THEN <<Head(sorted)>> \o InsertDescUnstable(Tail(sorted), r)
         ELSE <<r>> \o sorted

RECURSIVE InsertDesc(_, _)
InsertDesc(sorted, r) ==
    IF sorted = <<>> THEN <<r>>
    ELSE IF Head(sorted).year >= r.year
         THEN <<Head(sorted)>> \o InsertDesc(Tail(sorted), r)
         ELSE <<r>> \o sorted

RECURSIVE SortDescFrom(_, _)
SortDescFrom(acc, rest) ==
    IF rest = <<>> THEN acc
    ELSE SortDescFrom(InsertDesc(acc, Head(rest)), Tail(rest))

Unsorted(reports) == reports

(* validReports.sort((a, b) => b.year - a.year): stable, newest first. *)
SortByYearDesc(reports) == SortDescFrom(<<>>, reports)

-----------------------------------------------------------------------------
(* Inputs of the discovery specification: a prefix that fills most of the  *)
(* window, then any short tail over DiscoveryPool.                         *)

DiscoveryPool ==
    {AnnualLink(ys, ".pdf", FALSE) :
        ys \in {<<>>, <<2013>>, <<2014>>, <<2015>>, <<2024>>, <<2025>>,
                <<2014, 2020>>, <<2020, 2014>>}}
    \cup {AnnualLink(<<2024>>, ".PDF", FALSE), InterimLink(<<2015>>)}

DescendingPrefix == [i \in 1..9 |-> AnnualLink(<<2025 - i>>, ".pdf", FALSE)]
AscendingPrefix == [i \in 1..9 |-> AnnualLink(<<2015 + i>>, ".pdf", FALSE)]

SeqsUpTo(S, n) == UNION {[1..k -> S] : k \in 0..n}

DiscoveryLists ==
    {p \o t : p \in {<<>>, DescendingPrefix, AscendingPrefix},
              t \in SeqsUpTo(DiscoveryPool, MaxTail)}

-----------------------------------------------------------------------------
(* scrapeAndDownloadReports: candidate filter loop and sort *)

FilterLink ==
    /\ pc = "filter"
    /\ linkIdx <= Len(allPdfLinks)
    /\ validReports' = FilterOne(validReports, allPdfLinks[linkIdx])
    /\ linkIdx' = linkIdx + 1
    /\ UNCHANGED <<pc, allPdfLinks, dlIdx, disk, partialFiles, downloadedYears,
                   log, response, runs>>
    /\ UNCHANGED browserVars
    /\ UNCHANGED <<parseVars, otherVars>>

SortReports ==
    /\ pc = "filter"
    /\ linkIdx > Len(allPdfLinks)
    /\ validReports' = SortByYearDesc(validReports)
    /\ pc' = "download"
    /\ dlIdx' = 1
    /\ UNCHANGED <<allPdfLinks, linkIdx, disk, partialFiles, downloadedYears,
                   log, response, runs>>
    /\ UNCHANGED browserVars
    /\ UNCHANGED <<parseVars, otherVars>>

InitDiscovery ==
    /\ pc = "filter"
    /\ allPdfLinks \in DiscoveryLists
    /\ linkIdx = 1
    /\ validReports = <<>>
    /\ dlIdx = 0
    /\ disk = {}
    /\ partialFiles = {}
    /\ downloadedYears = <<>>
    /\ log = {}
    /\ response = NoResponse
    /\ runs = 1
    /\ browser = "open"
    /\ auxPages = 0
    /\ iframeSources = 0
    /\ ParseOff
    /\ OthersOff

NextDiscovery == FilterLink \/ SortReports

SpecDiscovery == InitDiscovery /\ [][NextDiscovery]_vars

-----------------------------------------------------------------------------
(* Inputs of the download specification: what one scan of the page returns *)

RunPool ==
    {AnnualLink(<<2024>>, ".pdf", FALSE), AnnualLink(<<2024>>, ".PDF", FALSE),
     AnnualLink(<<2023>>, "", TRUE), AnnualLink(<<2023>>, ".pdf", FALSE),
     InterimLink(<<2024>>), AnnualLink(<<2014>>, ".pdf", FALSE),
     AnnualLink(<<2023>>, ".aspx", FALSE)}

RunLists == SeqsUpTo(RunPool, MaxLinks)

-----------------------------------------------------------------------------
(* scrapeAndDownloadReports: navigation, download loop, return; and the    *)
(* route POST /api/annual_reports that awaits it                           *)

(* path.extname(originalName) || ".pdf" *)
Extension(ext) == IF ext = "" THEN ".pdf" ELSE ext

(* filePath = <downloadDir>/<year>-annual-report<extension> *)
FilePath(report) == [year |-> report.year, ext |-> Extension(report.ext)]

report == validReports[dlIdx]

InLoop == pc = "download" /\ dlIdx <= Len(validReports)

(* The loop is at a candidate whose file is missing and whose URL is direct,
   or the viewer URL of the candidate has been converted: downloadPdf is
   called. Its HEAD request only logs the content-type and follows
   redirects, and its failure is ignored. *)
ReadyToGet ==
    \/ pc = "get"
    \/ InLoop /\ FilePath(report) \notin disk /\ ~report.viewer

(* History: on reaching a year, whether the directory held a document of it. *)
Reached(year) ==
    IF pc = "download" /\ \E f \in disk : f.year = year
    THEN {<<year, "had-artifact">>} ELSE {}

Years(seq) == {seq[i] : i \in 1..Len(seq)}

SortedYears(seq) ==
    LET sorted == SortByYearDesc([i \in 1..Len(seq) |-> [year |-> seq[i]]])
    IN [i \in 1..Len(seq) |-> sorted[i].year]

LeakBrowser(b) == b

(* finally { await browser.close() }: close is invoked on the browser; a
   close that throws is caught and logged. *)
CloseBrowser(b) == "closed"

(* puppeteer.launch rejects: it is awaited before the try, nothing was
   launched, and the route answers 500. *)
LaunchFails ==
    /\ pc = "navigate"
    /\ response' = [status |-> 500, success |-> FALSE, years |-> <<>>, totalFiles |-> 0]
    /\ pc' = "responded"
    /\ UNCHANGED <<allPdfLinks, linkIdx, validReports, dlIdx, disk, partialFiles,
                   downloadedYears, log, runs>>
    /\ UNCHANGED browserVars
    /\ UNCHANGED <<parseVars, otherVars>>

(* The browser is launched, the page loads and its iframes are listed. *)
NavigateOk ==
    /\ pc = "navigate"
    /\ browser' = "open"
    /\ \E n \in 0..MaxIframes : iframeSources' = n
    /\ allPdfLinks' = <<>>
    /\ linkIdx' = 1
    /\ validReports' = <<>>
    /\ pc' = "iframes"
    /\ UNCHANGED <<dlIdx, disk, partialFiles, downloadedYears, log, response, runs,
                   auxPages>>
    /\ UNCHANGED <<parseVars, otherVars>>

(* The browser is launched and both page.goto attempts fail: the error is
   thrown through the finally block to the route, which answers 500. *)
NavigateFails ==
    /\ pc = "navigate"
    /\ browser' = CloseBrowser("open")
    /\ response' = [status |-> 500, success |-> FALSE, years |-> <<>>, totalFiles |-> 0]
    /\ pc' = "responded"
    /\ UNCHANGED <<allPdfLinks, linkIdx, validReports, dlIdx, disk, partialFiles,
                   downloadedYears, log, runs, auxPages, iframeSources>>
    /\ UNCHANGED <<parseVars, otherVars>>

AnyIframeContent(links) == TRUE

(* allPdfLinks.length === 0 after the iframe loop *)
NoIframeContent(links) == Len(links) = 0

(* History: where the raw links of the run came from. *)
FromIframe == <<NoYear, "iframe-links">>
FromMainPage == <<NoYear, "main-page-scan">>

(* What follows the scan of an iframe: the next iframe, the scan of the main
   page when no link was collected, otherwise the filter loop. *)
AfterIframe(left, links) ==
    IF left > 0 \/ NoIframeContent(links) THEN "iframes" ELSE "filter"

(* iframePage = await browser.newPage() *)
OpenIframePage ==
    /\ pc = "iframes"
    /\ iframeSources > 0
    /\ auxPages' = auxPages + 1
    /\ pc' = "iframe"
    /\ UNCHANGED <<allPdfLinks, linkIdx, validReports, dlIdx, disk, partialFiles,
                   downloadedYears, log, response, runs, browser, iframeSources>>
    /\ UNCHANGED <<parseVars, otherVars>>

(* The iframe is scanned, its links are pushed and the page is closed. *)
ScrapeIframe ==
    /\ pc = "iframe"
    /\ \E links \in RunLists :
          /\ Len(allPdfLinks) + Len(links) <= MaxLinks
          /\ allPdfLinks' = allPdfLinks \o links
          /\ log' = IF links # <<>> THEN log \cup {FromIframe} ELSE log
    /\ auxPages' = auxPages - 1
    /\ iframeSources' = iframeSources - 1
    /\ pc' = AfterIframe(iframeSources', allPdfLinks')
    /\ UNCHANGED <<linkIdx, validReports, dlIdx, disk, partialFiles,
                   downloadedYears, response, runs, browser>>
    /\ UNCHANGED <<parseVars, otherVars>>

(* The iframe fails to load or to evaluate: the catch closes the page that is
   still open and the loop goes on. *)
IframeFails ==
    /\ pc = "iframe"
    /\ auxPages' = auxPages - 1
    /\ iframeSources' = iframeSources - 1
    /\ pc' = AfterIframe(iframeSources', allPdfLinks)
    /\ UNCHANGED <<allPdfLinks, linkIdx, validReports, dlIdx, disk, partialFiles,
                   downloadedYears, log, response, runs, browser>>
    /\ UNCHANGED <<parseVars, otherVars>>

(* if (allPdfLinks.length === 0): the main page is loaded again and scanned. *)
ScanMainPage ==
    /\ pc = "iframes"
    /\ iframeSources = 0
    /\ NoIframeContent(allPdfLinks)
    /\ \E links \in RunLists : allPdfLinks' = links
    /\ log' = log \cup {FromMainPage}
    /\ pc' = "filter"
    /\ UNCHANGED <<linkIdx, validReports, dlIdx, disk, partialFiles,
                   downloadedYears, response, runs>>
    /\ UNCHANGED browserVars
    /\ UNCHANGED <<parseVars, otherVars>>

(* The page.goto of the main-page scan rejects: the error is rethrown through
   the finally block and the route answers 500. *)
MainPageFails ==
    /\ pc = "iframes"
    /\ iframeSources = 0
    /\ NoIframeContent(allPdfLinks)
    /\ browser' = CloseBrowser(browser)
    /\ response' = [status |-> 500, success |-> FALSE, years |-> <<>>, totalFiles |-> 0]
    /\ pc' = "responded"
    /\ UNCHANGED <<allPdfLinks, linkIdx, validReports, dlIdx, disk, partialFiles,
                   downloadedYears, log, runs, auxPages, iframeSources>>
    /\ UNCHANGED <<parseVars, otherVars>>

SkipExisting ==
    /\ InLoop
    /\ FilePath(report) \in disk
    /\ downloadedYears' = Append(downloadedYears, report.year)
    /\ log' = log \cup Reached(report.year) \cup {<<report.year, "skipped">>}
    /\ dlIdx' = dlIdx + 1
    /\ UNCHANGED <<pc, allPdfLinks, linkIdx, validReports, disk, partialFiles,
                   response, runs>>
    /\ UNCHANGED browserVars
    /\ UNCHANGED <<parseVars, otherVars>>

(* A viewer page as extractDirectPdfUrl meets it: whether page.goto loads
   it, and the URLs its strategies find, in the order of the strategies, each
   with what the validating page.goto(directUrl) gives: a binary
   content-type, another content-type, or an error. *)
ViewerPages ==
    [loads : BOOLEAN,
     candidates : SeqsUpTo({"binary", "non-binary", "error"}, MaxCandidates)]

NoUrl == [found |-> FALSE, candidate |-> 0, verified |-> FALSE]

(* page.evaluate returns the URL of the first strategy that finds one; only
   that URL is validated; it is returned when its content-type is binary and
   also when the validation throws. *)
extractDirectPdfUrl(viewer) ==
    IF ~viewer.loads \/ viewer.candidates = <<>> THEN NoUrl
    ELSE IF viewer.candidates[1] = "binary"
    THEN [found |-> TRUE, candidate |-> 1, verified |-> TRUE]
    ELSE IF viewer.candidates[1] = "error"
    THEN [found |-> TRUE, candidate |-> 1, verified |-> FALSE]
    ELSE NoUrl

(* extractorPage = await browser.newPage() for a candidate whose URL is a
   viewer page. *)
OpenExtractorPage ==
    /\ InLoop
    /\ FilePath(report) \notin disk
    /\ report.viewer
    /\ log' = log \cup Reached(report.year) \cup {<<report.year, "resolve">>}
    /\ auxPages' = auxPages + 1
    /\ pc' = "resolve"
    /\ UNCHANGED <<allPdfLinks, linkIdx, validReports, dlIdx, disk, partialFiles,
                   downloadedYears, response, runs, browser, iframeSources>>
    /\ UNCHANGED <<parseVars, otherVars>>

(* extractDirectPdfUrl returns; the finally block closes the extractor page;
   without a URL the loop continues with the next candidate. *)
ResolveViewer ==
    /\ pc = "resolve"
    /\ \E viewer \in ViewerPages :
          IF ~extractDirectPdfUrl(viewer).found
          THEN dlIdx' = dlIdx + 1 /\ pc' = "download"
          ELSE dlIdx' = dlIdx /\ pc' = "get"
    /\ auxPages' = auxPages - 1
    /\ UNCHANGED <<allPdfLinks, linkIdx, validReports, disk, partialFiles,
                   downloadedYears, log, response, runs, browser, iframeSources>>
    /\ UNCHANGED <<parseVars, otherVars>>

(* downloadPdf: axios.get rejects; the catch removes the file if it exists. *)
GetFails ==
    /\ ReadyToGet
    /\ log' = log \cup Reached(report.year)
                  \cup {<<report.year, "get">>, <<report.year, "net-error">>}
    /\ disk' = disk \ {FilePath(report)}
    /\ partialFiles' = partialFiles \ {FilePath(report)}
    /\ dlIdx' = dlIdx + 1
    /\ pc' = "download"
    /\ UNCHANGED <<allPdfLinks, linkIdx, validReports, downloadedYears, response, runs>>
    /\ UNCHANGED browserVars
    /\ UNCHANGED <<parseVars, otherVars>>

(* downloadPdf: the response's content-type is not pdf/octet-stream/binary. *)
GetNonBinary ==
    /\ ReadyToGet
    /\ log' = log \cup Reached(report.year)
                  \cup {<<report.year, "get">>, <<report.year, "non-binary">>}
    /\ dlIdx' = dlIdx + 1
    /\ pc' = "download"
    /\ UNCHANGED <<allPdfLinks, linkIdx, validReports, disk, partialFiles,
                   downloadedYears, response, runs>>
    /\ UNCHANGED browserVars
    /\ UNCHANGED <<parseVars, otherVars>>

(* downloadPdf: fs.createWriteStream(filePath) and response.data.pipe(writer). *)
GetOpensStream ==
    /\ ReadyToGet
    /\ log' = log \cup Reached(report.year) \cup {<<report.year, "get">>}
    /\ disk' = disk \cup {FilePath(report)}
    /\ partialFiles' = partialFiles \cup {FilePath(report)}
    /\ pc' = "stream"
    /\ UNCHANGED <<allPdfLinks, linkIdx, validReports, dlIdx, downloadedYears,
                   response, runs>>
    /\ UNCHANGED browserVars
    /\ UNCHANGED <<parseVars, otherVars>>

(* writer "finish": the promise resolves and downloadPdf returns true. *)
StreamFinish ==
    /\ pc = "stream"
    /\ partialFiles' = partialFiles \ {FilePath(report)}
    /\ downloadedYears' = Append(downloadedYears, report.year)
    /\ log' = log \cup {<<report.year, "downloaded">>}
    /\ dlIdx' = dlIdx + 1
    /\ pc' = "download"
    /\ UNCHANGED <<allPdfLinks, linkIdx, validReports, disk, response, runs>>
    /\ UNCHANGED browserVars
    /\ UNCHANGED <<parseVars, otherVars>>

(* writer "error": the promise rejects; the catch unlinks the partial file,
   and an unlink that throws is logged and leaves the file. *)
StreamWriterError ==
    /\ pc = "stream"
    /\ \E unlinkOk \in BOOLEAN :
          IF unlinkOk
          THEN /\ disk' = disk \ {FilePath(report)}
               /\ partialFiles' = partialFiles \ {FilePath(report)}
          ELSE UNCHANGED <<disk, partialFiles>>
    /\ log' = log \cup {<<report.year, "write-error">>}
    /\ dlIdx' = dlIdx + 1
    /\ pc' = "download"
    /\ UNCHANGED <<allPdfLinks, linkIdx, validReports, downloadedYears, response, runs>>
    /\ UNCHANGED browserVars
    /\ UNCHANGED <<parseVars, otherVars>>

(* The connection fails while the body is streamed: the error is raised on
   response.data, on which downloadPdf registers no handler; pipe() does not
   end or fail the writer, so neither "finish" nor "error" reaches the
   promise and the awaited download never settles. *)
StreamSourceError ==
    /\ pc = "stream"
    /\ log' = log \cup {<<report.year, "net-error">>}
    /\ pc' = "hung"
    /\ UNCHANGED <<allPdfLinks, linkIdx, validReports, dlIdx, disk, partialFiles,
                   downloadedYears, response, runs>>
    /\ UNCHANGED browserVars
    /\ UNCHANGED <<parseVars, otherVars>>

(* The loop is over: the function returns and the route answers success. *)
FinishRun ==
    /\ pc = "download"
    /\ dlIdx > Len(validReports)
    /\ response' = [status |-> 200, success |-> TRUE,
                    years |-> SortedYears(downloadedYears),
                    totalFiles |-> Len(downloadedYears)]
    /\ browser' = CloseBrowser(browser)
    /\ pc' = "responded"
    /\ UNCHANGED <<allPdfLinks, linkIdx, validReports, dlIdx, disk, partialFiles,
                   downloadedYears, log, runs, auxPages, iframeSources>>
    /\ UNCHANGED <<parseVars, otherVars>>

(* The next request for the same company. *)
NewRun ==
    /\ pc = "responded"
    /\ runs < MaxRuns
    /\ runs' = runs + 1
    /\ pc' = "navigate"
    /\ allPdfLinks' = <<>>
    /\ linkIdx' = 1
    /\ validReports' = <<>>
    /\ dlIdx' = 0
    /\ downloadedYears' = <<>>
    /\ log' = {}
    /\ response' = NoResponse
    /\ browser' = "none"
    /\ auxPages' = 0
    /\ iframeSources' = 0
    /\ UNCHANGED <<disk, partialFiles>>
    /\ UNCHANGED <<parseVars, otherVars>>

Init ==
    /\ pc = "navigate"
    /\ allPdfLinks = <<>>
    /\ linkIdx = 1
    /\ validReports = <<>>
    /\ dlIdx = 0
    /\ disk = {}
    /\ partialFiles = {}
    /\ downloadedYears = <<>>
    /\ log = {}
    /\ response = NoResponse
    /\ runs = 1
    /\ browser = "none"
    /\ auxPages = 0
    /\ iframeSources = 0
    /\ ParseOff
    /\ OthersOff

Next ==
    \/ LaunchFails \/ NavigateOk \/ NavigateFails
    \/ OpenIframePage \/ ScrapeIframe \/ IframeFails
    \/ ScanMainPage \/ MainPageFails
    \/ FilterLink \/ SortReports
    \/ SkipExisting \/ OpenExtractorPage \/ ResolveViewer
    \/ GetFails \/ GetNonBinary \/ GetOpensStream
    \/ StreamFinish \/ StreamWriterError \/ StreamSourceError
    \/ FinishRun \/ NewRun

Spec == Init /\ [][Next]_vars

-----------------------------------------------------------------------------
(* POST /api/annual_reports received again while a run for the same company *)
(* is awaiting: each request runs scrapeAndDownloadReports on the same      *)
(* download directory                                                       *)

RECURSIVE FilterFrom(_, _)
FilterFrom(reports, links) ==
    IF links = <<>> THEN reports
    ELSE FilterFrom(FilterOne(reports, Head(links)), Tail(links))

(* The candidates a request holds when its download loop starts. *)
Discover(links) == SortByYearDesc(FilterFrom(<<>>, links))

IdleRequest == [pc |-> "idle", validReports |-> <<>>, dlIdx |-> 0]

RequestIds == 1..MaxRequests

reportOf(r) == requests[r].validReports[requests[r].dlIdx]

AtCandidate(r) ==
    /\ requests[r].pc = "download"
    /\ requests[r].dlIdx <= Len(requests[r].validReports)

NextCandidate(r) ==
    [requests EXCEPT ![r].pc = "download", ![r].dlIdx = @ + 1]

dlRunVars == <<pc, allPdfLinks, linkIdx, validReports, dlIdx, downloadedYears,
               log, response, runs, browserVars>>

(* The route takes the request and the scan, filter and sort have run; the
   route keeps no record of the runs that are in flight. *)
StartRequest(r) ==
    /\ requests[r].pc = "idle"
    /\ \E links \in RunLists :
          requests' = [requests EXCEPT ![r] =
              [pc |-> "download", validReports |-> Discover(links), dlIdx |-> 1]]
    /\ UNCHANGED <<disk, partialFiles>>
    /\ UNCHANGED <<dlRunVars, parseVars, arg, out>>

(* fs.existsSync(filePath) is true: the candidate is skipped. *)
RequestSkips(r) ==
    /\ AtCandidate(r)
    /\ FilePath(reportOf(r)) \in disk
    /\ requests' = NextCandidate(r)
    /\ UNCHANGED <<disk, partialFiles>>
    /\ UNCHANGED <<dlRunVars, parseVars, arg, out>>

(* fs.existsSync(filePath) is false: the request goes on to await the viewer
   conversion and the HEAD and GET requests. *)
RequestFetches(r) ==
    /\ AtCandidate(r)
    /\ FilePath(reportOf(r)) \notin disk
    /\ requests' = [requests EXCEPT ![r].pc = "get"]
    /\ UNCHANGED <<disk, partialFiles>>
    /\ UNCHANGED <<dlRunVars, parseVars, arg, out>>

(* No URL, a failed GET or a non-binary content-type: nothing is written. *)
RequestGetFails(r) ==
    /\ requests[r].pc = "get"
    /\ requests' = NextCandidate(r)
    /\ UNCHANGED <<disk, partialFiles>>
    /\ UNCHANGED <<dlRunVars, parseVars, arg, out>>

(* fs.createWriteStream(filePath) and pipe: the file is being written. *)
RequestOpensStream(r) ==
    /\ requests[r].pc = "get"
    /\ requests' = [requests EXCEPT ![r].pc = "stream"]
    /\ disk' = disk \cup {FilePath(reportOf(r))}
    /\ partialFiles' = partialFiles \cup {FilePath(reportOf(r))}
    /\ UNCHANGED <<dlRunVars, parseVars, arg, out>>

Writers(path) ==
    {r \in RequestIds : requests[r].pc = "stream" /\ FilePath(reportOf(r)) = path}

(* writer "finish" *)
RequestStreamFinish(r) ==
    /\ requests[r].pc = "stream"
    /\ requests' = NextCandidate(r)
    /\ partialFiles' = IF Writers(FilePath(reportOf(r))) = {r}
                       THEN partialFiles \ {FilePath(reportOf(r))}
                       ELSE partialFiles
    /\ UNCHANGED disk
    /\ UNCHANGED <<dlRunVars, parseVars, arg, out>>

(* writer "error": the catch unlinks the file at the path. *)
RequestStreamError(r) ==
    /\ requests[r].pc = "stream"
    /\ requests' = NextCandidate(r)
    /\ disk' = disk \ {FilePath(reportOf(r))}
    /\ partialFiles' = partialFiles \ {FilePath(reportOf(r))}
    /\ UNCHANGED <<dlRunVars, parseVars, arg, out>>

(* The loop is over: the function returns and the route answers. *)
RequestReturns(r) ==
    /\ requests[r].pc = "download"
    /\ requests[r].dlIdx > Len(requests[r].validReports)
    /\ requests' = [requests EXCEPT ![r].pc = "responded"]
    /\ UNCHANGED <<disk, partialFiles>>
    /\ UNCHANGED <<dlRunVars, parseVars, arg, out>>

InitConcurrent ==
    /\ pc = "off"
    /\ allPdfLinks = <<>>
    /\ linkIdx = 1
    /\ validReports = <<>>
    /\ dlIdx = 0
    /\ disk = {}
    /\ partialFiles = {}
    /\ downloadedYears = <<>>
    /\ log = {}
    /\ response = NoResponse
    /\ runs = 0
    /\ browser = "none"
    /\ auxPages = 0
    /\ iframeSources = 0
    /\ ParseOff
    /\ requests = [r \in RequestIds |-> IdleRequest]
    /\ arg = <<>>
    /\ out = <<>>

NextConcurrent ==
    \E r \in RequestIds :
        \/ StartRequest(r)
        \/ RequestSkips(r)
        \/ RequestFetches(r)
        \/ RequestGetFails(r)
        \/ RequestOpensStream(r)
        \/ RequestStreamFinish(r)
        \/ RequestStreamError(r)
        \/ RequestReturns(r)

SpecConcurrent == InitConcurrent /\ [][NextConcurrent]_vars

-----------------------------------------------------------------------------
(* Inputs of the parse specification: the entries of the reports directory *)

File(name, years, ext) == [name |-> name, years |-> years, ext |-> ext]

DirPool ==
    {File("2024-annual-report.pdf", <<2024>>, ".pdf"),
     File("2024-annual-report.PDF", <<2024>>, ".PDF"),
     File("2023-annual-report.pdf", <<2023>>, ".pdf"),
     File("report.pdf", <<>>, ".pdf"),
     File("2023-annual-report.aspx", <<2023>>, ".aspx")}

DirListings ==
    {d \in SeqsUpTo(DirPool, MaxFiles) :
        \A i, j \in 1..Len(d) : i # j => d[i] # d[j]}

ParseOutcomes ==
    {"read-error", "empty-text", "short-text", "auth-error", "rate-limit", "service-error",
     "empty-response", "malformed-json", "missing-keys", "ok"}

-----------------------------------------------------------------------------
(* parsePDFWithAI, normalizeFinancialData, parseFinancialStatements and    *)
(* the route POST /api/parse                                               *)

ToLowerCase(ext) == IF ext = ".PDF" THEN ".pdf" ELSE ext

(* file.toLowerCase().endsWith(".pdf") *)
IsPdfName(file) == ToLowerCase(file.ext) = ".pdf"

extractYearFromFilename(file) ==
    IF file.years = <<>> THEN NoYear
    ELSE LET year == Head(file.years)
         IN IF year >= ExtractMinYear /\ year <= ExtractMaxYear
            THEN year ELSE NoYear

(* The statement map the service returns for a document: every document
   has its own figures. *)
(* Text is a sequence of characters. *)
Comma == ","
Quote == "\""
LF == "\n"
CR == "\r"

NA == <<"N", "/", "A">>

(* A JSON value of a statement: a string or a number, with its text. *)
Str(text) == [kind |-> "string", text |-> text]
Num(text) == [kind |-> "number", text |-> text]

Revenue == <<"R", "e", "v", "e", "n", "u", "e">>
NetIncome == <<"N", "e", "t", " ", "I", "n", "c", "o", "m", "e">>
TotalAssets == <<"T", "o", "t", "a", "l", " ", "A", "s", "s", "e", "t", "s">>
NetChange == <<"N", "e", "t", " ", "C", "h", "a", "n", "g", "e">>

(* What the extraction service answers for each document: item names and
   values are the service's; a value may be a string, "N/A" or a number, and
   a statement may have no items. *)
ServiceAnswer(name) ==
    IF name = "2024-annual-report.pdf"
    THEN [income_statement |->
              (Revenue :> Str(<<"1", "0", "7", ",", "9", "2", "7">>))
                  @@ (NetIncome :> Str(NA)),
          balance_sheet |-> (TotalAssets :> Str(<<"9", "1">>)),
          cash_flow |-> <<>>]
    ELSE IF name = "2024-annual-report.PDF"
    THEN [income_statement |-> (Revenue :> Str(<<"1">>)),
          balance_sheet |-> (TotalAssets :> Str(<<"0">>)),
          cash_flow |-> (NetChange :> Str(<<"3">>))]
    ELSE [income_statement |->
              (Revenue :> Num(<<"0">>)) @@ (NetIncome :> Str(<<"-", "5">>)),
          balance_sheet |-> <<>>,
          cash_flow |-> (NetChange :> Str(<<"7">>))]

(* parsedData.income_statement, .balance_sheet, .cash_flow of the answer *)
StatementOf(file, statementType) == ServiceAnswer(file.name)[statementType]

(* pdfData.text.length for each outcome: a document without text, one a
   character short of the threshold, and one that reaches it. *)
PdfTextLength(outcome) ==
    IF outcome = "empty-text" THEN 0
    ELSE IF outcome = "short-text" THEN MinTextLength - 1
    ELSE MinTextLength

TextAlwaysReadable(length) == FALSE

(* !pdfData.text || pdfData.text.length < 1000 *)
TextUnreadable(length) == length = 0 \/ length < MinTextLength

(* The outcomes in which openai.chat.completions.create is called: the file
   was read and its text is long enough. *)
CallsService(outcome) ==
    /\ outcome # "read-error"
    /\ ~TextUnreadable(PdfTextLength(outcome))

Null == [ok |-> FALSE, year |-> NoYear, filename |-> "none"]

ParseResult(file, year) ==
    [ok |-> TRUE, year |-> year, filename |-> file.name,
     income_statement |-> StatementOf(file, "income_statement"),
     balance_sheet |-> StatementOf(file, "balance_sheet"),
     cash_flow |-> StatementOf(file, "cash_flow")]

ErrorOf(outcome) ==
    [message |-> outcome,
     status |-> IF outcome = "auth-error" THEN 401
                ELSE IF outcome = "rate-limit" THEN 429
                ELSE 0]

(* A parsePDFWithAI whose catch block passes the error on. *)
parsePDFWithAIRethrows(file, year, outcome) ==
    IF outcome = "ok"
    THEN [thrown |-> NoError, result |-> ParseResult(file, year)]
    ELSE IF outcome \in {"read-error", "auth-error", "rate-limit", "service-error"}
    THEN [thrown |-> ErrorOf(outcome), result |-> Null]
    ELSE [thrown |-> NoError, result |-> Null]

(* What the call returns, or throws, on each outcome: every return that is
   not the result is null, and the catch block returns null for any error. *)
parsePDFWithAI(file, year, outcome) ==
    IF outcome = "ok"
    THEN [thrown |-> NoError, result |-> ParseResult(file, year)]
    ELSE [thrown |-> NoError, result |-> Null]

(* The catch block of the route. *)
RouteAnswer(error) ==
    IF error.message = "Reports directory not found"
    THEN [status |-> 404, success |-> FALSE, error |-> "Company reports not found"]
    ELSE IF error.message = "No PDF files found"
    THEN [status |-> 404, success |-> FALSE, error |-> "No PDF files found for company"]
    ELSE IF error.message = "Failed to parse any PDF files"
    THEN [status |-> 422, success |-> FALSE, error |-> "Unable to parse any PDF files"]
    ELSE IF error.status = 401
    THEN [status |-> 500, success |-> FALSE, error |-> "AI service authentication failed"]
    ELSE IF error.status = 429
    THEN [status |-> 429, success |-> FALSE, error |-> "AI service rate limit exceeded"]
    ELSE [status |-> 500, success |-> FALSE, error |-> "Failed to parse financial statements"]

Thrown(message) == [message |-> message, status |-> 0]

(* fs.writeFileSync(parsed_data/<company>/<year>.json, yearData) *)
WriteYearData(records, year, file, result) ==
    {r \in records : r.year # year}
        \cup {[year |-> year, source_file |-> file.name,
               income_statement |-> result.income_statement,
               balance_sheet |-> result.balance_sheet,
               cash_flow |-> result.cash_flow]}

NeverEmpty(results) == FALSE

(* parseResults.length === 0 *)
NoResults(results) == Len(results) = 0

RECURSIVE InsertAsc(_, _)
InsertAsc(sorted, y) ==
    IF sorted = <<>> THEN <<y>>
    ELSE IF Head(sorted) <= y
         THEN <<Head(sorted)>> \o InsertAsc(Tail(sorted), y)
         ELSE <<y>> \o sorted

RECURSIVE SortAscFrom(_, _)
SortAscFrom(acc, rest) ==
    IF rest = <<>> THEN acc
    ELSE SortAscFrom(InsertAsc(acc, Head(rest)), Tail(rest))

(* parseResults.map((r) => r.year.toString()).sort(): the years are four
   digits, so the order of the strings is the order of the numbers. *)
YearsCovered(results) ==
    SortAscFrom(<<>>, [i \in 1..Len(results) |-> results[i].year])

Overwrite(map, seen, year, value) ==
    [y \in DOMAIN map \cup {year} |-> IF y = year THEN value ELSE map[y]]

(* The statement map after one result: written unless the year was seen. *)
NormalizeWrite(map, seen, year, value) ==
    IF year \notin seen
    THEN [y \in DOMAIN map \cup {year} |-> IF y = year THEN value ELSE map[y]]
    ELSE map

-----------------------------------------------------------------------------
(* CSVExporter: generateCSV, generateCompanyCSV, rowsToCSV, escapeCSVField  *)

Digits == <<"0", "1", "2", "3", "4", "5", "6", "7", "8", "9">>

LowerCase ==
    <<"a", "b", "c", "d", "e", "f", "g", "h", "i", "j", "k", "l", "m",
      "n", "o", "p", "q", "r", "s", "t", "u", "v", "w", "x", "y", "z">>

UpperCase ==
    <<"A", "B", "C", "D", "E", "F", "G", "H", "I", "J", "K", "L", "M",
      "N", "O", "P", "Q", "R", "S", "T", "U", "V", "W", "X", "Y", "Z">>

(* The characters of the model in the order of their code units. *)
Alphabet ==
    <<LF, CR, " ", Quote, Comma, "-", "/">> \o Digits \o UpperCase
        \o <<"_">> \o LowerCase

CharCode(c) == CHOOSE i \in 1..Len(Alphabet) : Alphabet[i] = c

(* a < b as Array.prototype.sort() without a comparator orders strings *)
RECURSIVE TextLess(_, _)
TextLess(a, b) ==
    IF b = <<>> THEN FALSE
    ELSE IF a = <<>> THEN TRUE
    ELSE IF Head(a) = Head(b) THEN TextLess(Tail(a), Tail(b))
    ELSE CharCode(Head(a)) < CharCode(Head(b))

(* Array.from(set).sort() *)
RECURSIVE SortTexts(_)
SortTexts(set) ==
    IF set = {} THEN <<>>
    ELSE LET least == CHOOSE x \in set : \A y \in set \ {x} : TextLess(x, y)
         IN <<least>> \o SortTexts(set \ {least})

(* year.toString() *)
RECURSIVE NatToText(_)
NatToText(n) ==
    IF n < 10 THEN <<Digits[n + 1]>>
    ELSE NatToText(n \div 10) \o <<Digits[(n % 10) + 1]>>

StatementKey == <<"S", "t", "a", "t", "e", "m", "e", "n", "t">>
ItemKey == <<"I", "t", "e", "m">>
YearKey == <<"Y", "e", "a", "r">>

StatementOrder == <<"income_statement", "balance_sheet", "cash_flow">>

formatStatementName(statementType) ==
    IF statementType = "income_statement"
    THEN <<"I", "n", "c", "o", "m", "e", " ">> \o StatementKey
    ELSE IF statementType = "balance_sheet"
    THEN <<"B", "a", "l", "a", "n", "c", "e", " ", "S", "h", "e", "e", "t">>
    ELSE <<"C", "a", "s", "h", " ", "F", "l", "o", "w", " ">> \o StatementKey

(* A value that || replaces: the number 0 and the empty string. *)
Falsy(value) ==
    \/ value.kind = "number" /\ value.text = <<"0">>
    \/ value.kind = "string" /\ value.text = <<>>

HasValue(statementData, year, item) ==
    /\ year \in DOMAIN statementData
    /\ item \in DOMAIN statementData[year]

(* statementData[year]?.[item] || "N/A" *)
ValueOrNA(statementData, year, item) ==
    IF HasValue(statementData, year, item) /\ ~Falsy(statementData[year][item])
    THEN statementData[year][item]
    ELSE Str(NA)

(* row[key] = value *)
SetCell(row, key, value) == (key :> value) @@ row

RECURSIVE Join(_, _)
Join(texts, separator) ==
    IF texts = <<>> THEN <<>>
    ELSE IF Len(texts) = 1 THEN texts[1]
    ELSE texts[1] \o separator \o Join(Tail(texts), separator)

(* field.replace(/"/g, '""') *)
RECURSIVE DoubleQuotes(_)
DoubleQuotes(field) ==
    IF field = <<>> THEN <<>>
    ELSE (IF Head(field) = Quote THEN <<Quote, Quote>> ELSE <<Head(field)>>)
             \o DoubleQuotes(Tail(field))

Includes(field, c) == \E i \in 1..Len(field) : field[i] = c

escapeCSVField(field) ==
    IF Includes(field, Comma) \/ Includes(field, Quote) \/ Includes(field, LF)
    THEN <<Quote>> \o DoubleQuotes(field) \o <<Quote>>
    ELSE field

(* value?.toString() || "" *)
CellText(row, header) == IF header \in DOMAIN row THEN row[header].text ELSE <<>>

rowsToCSV(headers, rows) ==
    LET headerLine ==
            Join([i \in 1..Len(headers) |-> escapeCSVField(headers[i])], <<Comma>>)
        line(row) ==
            Join([i \in 1..Len(headers) |->
                     escapeCSVField(CellText(row, headers[i]))], <<Comma>>)
    IN Join(<<headerLine>> \o [k \in 1..Len(rows) |-> line(rows[k])], <<LF>>)

(* The items of a statement over the given years, sorted. *)
ItemsOf(statementData, years) ==
    SortTexts(UNION {DOMAIN statementData[y] : y \in years \cap DOMAIN statementData})

RECURSIVE FillYears(_, _, _, _)
FillYears(row, statementData, item, years) ==
    IF years = <<>> THEN row
    ELSE FillYears(SetCell(row, NatToText(Head(years)),
                           ValueOrNA(statementData, Head(years), item)),
                   statementData, item, Tail(years))

(* The rows of one statement type in generateCSV. *)
StatementRows(statementType, statementData, years) ==
    LET items == ItemsOf(statementData, Years(years))
    IN [k \in 1..Len(items) |->
           FillYears((StatementKey :> Str(formatStatementName(statementType)))
                         @@ (ItemKey :> Str(items[k])),
                     statementData, items[k], years)]

generateCSV(data) ==
    LET years == SortAscFrom(<<>>, data.years_covered)
        headers == <<StatementKey, ItemKey>>
                       \o [i \in 1..Len(years) |-> NatToText(years[i])]
        rows == StatementRows(StatementOrder[1],
                              data.statements[StatementOrder[1]], years)
                    \o StatementRows(StatementOrder[2],
                                     data.statements[StatementOrder[2]], years)
                    \o StatementRows(StatementOrder[3],
                                     data.statements[StatementOrder[3]], years)
    IN [headers |-> headers, rows |-> rows, text |-> rowsToCSV(headers, rows)]

-----------------------------------------------------------------------------
(* parseFinancialStatements and the routes that parse and export *)

file == files[fileIdx]

ParseDirMissing ==
    /\ ppc = "idle"
    /\ presponse' = RouteAnswer(Thrown("Reports directory not found"))
    /\ ppc' = "responded"
    /\ UNCHANGED <<files, fileIdx, parseResults, parsedData, compiled,
                   sortedResults, normIdx, statements, processedYears, pruns,
                   attempted, called, succeeded, last, authFailedAt,
                   rateLimited, compiledAtStart>>
    /\ UNCHANGED <<dlVars, otherVars>>

ListFiles ==
    /\ ppc = "idle"
    /\ \E dir \in DirListings :
          /\ files' = SelectSeq(dir, IsPdfName)
          /\ IF Len(files') = 0
             THEN /\ presponse' = RouteAnswer(Thrown("No PDF files found"))
                  /\ ppc' = "responded"
             ELSE /\ presponse' = presponse
                  /\ ppc' = "loop"
    /\ fileIdx' = 1
    /\ parseResults' = <<>>
    /\ UNCHANGED <<parsedData, compiled, sortedResults, normIdx, statements,
                   processedYears, pruns, attempted, called, succeeded, last,
                   authFailedAt, rateLimited, compiledAtStart>>
    /\ UNCHANGED <<dlVars, otherVars>>

SkipNoYear ==
    /\ ppc = "loop"
    /\ fileIdx <= Len(files)
    /\ extractYearFromFilename(file) = NoYear
    /\ fileIdx' = fileIdx + 1
    /\ last' = [file |-> file.name, outcome |-> "no-year"]
    /\ UNCHANGED <<ppc, files, parseResults, parsedData, compiled,
                   sortedResults, normIdx, statements, processedYears,
                   presponse, pruns, attempted, called, succeeded,
                   authFailedAt, rateLimited, compiledAtStart>>
    /\ UNCHANGED <<dlVars, otherVars>>

ParseFile ==
    /\ ppc = "loop"
    /\ fileIdx <= Len(files)
    /\ extractYearFromFilename(file) # NoYear
    /\ \E outcome \in ParseOutcomes :
          LET year == extractYearFromFilename(file)
              r == parsePDFWithAI(file, year, outcome)
          IN /\ attempted' = attempted \cup {file.name}
             /\ called' = IF CallsService(outcome)
                          THEN Append(called, file.name) ELSE called
             /\ authFailedAt' = IF outcome = "auth-error" /\ authFailedAt = 0
                                THEN Len(called') ELSE authFailedAt
             /\ rateLimited' = (rateLimited \/ outcome = "rate-limit")
             /\ last' = [file |-> file.name, outcome |-> outcome]
             /\ IF r.thrown # NoError
                THEN /\ presponse' = RouteAnswer(r.thrown)
                     /\ ppc' = "responded"
                     /\ UNCHANGED <<fileIdx, parseResults, parsedData, succeeded>>
                ELSE /\ IF r.result.ok
                        THEN /\ parseResults' = Append(parseResults, r.result)
                             /\ parsedData' =
                                  WriteYearData(parsedData, year, file, r.result)
                             /\ succeeded' = succeeded \cup {file.name}
                        ELSE UNCHANGED <<parseResults, parsedData, succeeded>>
                     /\ fileIdx' = fileIdx + 1
                     /\ UNCHANGED <<ppc, presponse>>
    /\ UNCHANGED <<files, compiled, sortedResults, normIdx, statements,
                   processedYears, pruns, compiledAtStart>>
    /\ UNCHANGED <<dlVars, otherVars>>

FailEmpty ==
    /\ ppc = "loop"
    /\ fileIdx > Len(files)
    /\ NoResults(parseResults)
    /\ presponse' = RouteAnswer(Thrown("Failed to parse any PDF files"))
    /\ ppc' = "responded"
    /\ UNCHANGED <<files, fileIdx, parseResults, parsedData, compiled,
                   sortedResults, normIdx, statements, processedYears, pruns,
                   attempted, called, succeeded, last, authFailedAt,
                   rateLimited, compiledAtStart>>
    /\ UNCHANGED <<dlVars, otherVars>>

(* normalizeFinancialData begins: parseResults.sort() sorts in place. *)
StartNormalize ==
    /\ ppc = "loop"
    /\ fileIdx > Len(files)
    /\ ~NoResults(parseResults)
    /\ sortedResults' = SortByYearDesc(parseResults)
    /\ parseResults' = sortedResults'
    /\ statements' = EmptyStatements
    /\ processedYears' = [t \in StatementTypes |-> {}]
    /\ normIdx' = 1
    /\ ppc' = "normalize"
    /\ UNCHANGED <<files, fileIdx, parsedData, compiled, presponse, pruns,
                   attempted, called, succeeded, last, authFailedAt,
                   rateLimited, compiledAtStart>>
    /\ UNCHANGED <<dlVars, otherVars>>

NormalizeResult ==
    /\ ppc = "normalize"
    /\ normIdx <= Len(sortedResults)
    /\ LET result == sortedResults[normIdx]
       IN /\ statements' =
               [t \in StatementTypes |->
                   NormalizeWrite(statements[t], processedYears[t],
                                  result.year, result[t])]
          /\ processedYears' =
               [t \in StatementTypes |-> processedYears[t] \cup {result.year}]
    /\ normIdx' = normIdx + 1
    /\ UNCHANGED <<ppc, files, fileIdx, parseResults, parsedData, compiled,
                   sortedResults, presponse, pruns, attempted, called,
                   succeeded, last, authFailedAt, rateLimited, compiledAtStart>>
    /\ UNCHANGED <<dlVars, otherVars>>

(* The record is written to compiled_data and the route answers success. *)
WriteCompiled ==
    /\ ppc = "normalize"
    /\ normIdx > Len(sortedResults)
    /\ compiled' = [written |-> TRUE, statements |-> statements,
                    years_covered |-> YearsCovered(parseResults),
                    total_files |-> Len(parseResults), parsed_at |-> pruns]
    /\ presponse' = [status |-> 200, success |-> TRUE, error |-> "none"]
    /\ ppc' = "responded"
    /\ UNCHANGED <<files, fileIdx, parseResults, parsedData, sortedResults,
                   normIdx, statements, processedYears, pruns, attempted,
                   called, succeeded, last, authFailedAt, rateLimited,
                   compiledAtStart>>
    /\ UNCHANGED <<dlVars, otherVars>>

(* The next parse request for the same company. *)
NewParseRun ==
    /\ ppc = "responded"
    /\ pruns < MaxRuns
    /\ pruns' = pruns + 1
    /\ ppc' = "idle"
    /\ files' = <<>>
    /\ fileIdx' = 1
    /\ parseResults' = <<>>
    /\ sortedResults' = <<>>
    /\ normIdx' = 1
    /\ statements' = EmptyStatements
    /\ processedYears' = [t \in StatementTypes |-> {}]
    /\ presponse' = NoParseResponse
    /\ attempted' = {}
    /\ called' = <<>>
    /\ succeeded' = {}
    /\ last' = NoFile
    /\ authFailedAt' = 0
    /\ rateLimited' = FALSE
    /\ compiledAtStart' = compiled
    /\ UNCHANGED <<parsedData, compiled>>
    /\ arg' = <<>>
    /\ out' = <<>>
    /\ UNCHANGED <<dlVars, requests>>

(* GET /api/csv/download/:company: generateCompanyCSV loads the consolidated
   record that is on disk and returns generateCSV of it. The record changes
   only when a parse run writes it, so the export is taken after a run has
   answered. *)
GenerateCompanyCSV ==
    /\ ppc = "responded"
    /\ compiled.written
    /\ arg' = compiled
    /\ out' = <<generateCSV(compiled)>>
    /\ UNCHANGED requests
    /\ UNCHANGED <<dlVars, parseVars>>

(* The download handler is not part of the specification. *)
DownloadOff ==
    /\ pc = "off"
    /\ allPdfLinks = <<>>
    /\ linkIdx = 1
    /\ validReports = <<>>
    /\ dlIdx = 0
    /\ disk = {}
    /\ partialFiles = {}
    /\ downloadedYears = <<>>
    /\ log = {}
    /\ response = NoResponse
    /\ runs = 0
    /\ browser = "none"
    /\ auxPages = 0
    /\ iframeSources = 0

InitParse ==
    /\ DownloadOff
    /\ OthersOff
    /\ ppc = "idle"
    /\ files = <<>>
    /\ fileIdx = 1
    /\ parseResults = <<>>
    /\ parsedData = {}
    /\ compiled = NoCompiled
    /\ sortedResults = <<>>
    /\ normIdx = 1
    /\ statements = EmptyStatements
    /\ processedYears = [t \in StatementTypes |-> {}]
    /\ presponse = NoParseResponse
    /\ pruns = 1
    /\ attempted = {}
    /\ called = <<>>
    /\ succeeded = {}
    /\ last = NoFile
    /\ authFailedAt = 0
    /\ rateLimited = FALSE
    /\ compiledAtStart = NoCompiled

NextParse ==
    \/ ParseDirMissing \/ ListFiles
    \/ SkipNoYear \/ ParseFile
    \/ FailEmpty \/ StartNormalize \/ NormalizeResult \/ WriteCompiled
    \/ NewParseRun
    \/ GenerateCompanyCSV

SpecParse == InitParse /\ [][NextParse]_vars

-----------------------------------------------------------------------------
(* The consolidation step of parseFinancialStatements applied to an array   *)
(* of results: normalizeFinancialData, years_covered and total_files        *)

RECURSIVE NormalizeFrom(_, _, _)
NormalizeFrom(stmts, seen, rest) ==
    IF rest = <<>> THEN stmts
    ELSE LET result == Head(rest)
         IN NormalizeFrom(
                [t \in StatementTypes |->
                    NormalizeWrite(stmts[t], seen[t], result.year, result[t])],
                [t \in StatementTypes |-> seen[t] \cup {result.year}],
                Tail(rest))

normalizeFinancialData(results) ==
    NormalizeFrom(EmptyStatements, [t \in StatementTypes |-> {}],
                  SortByYearDesc(results))

(* statements, metadata.years_covered, metadata.total_files and parsed_at *)
Consolidate(results, now) ==
    [statements |-> normalizeFinancialData(results),
     years_covered |-> YearsCovered(results),
     total_files |-> Len(results),
     parsed_at |-> now]

(* Results of documents that can be parsed. *)
ResultPool ==
    {ParseResult(f, extractYearFromFilename(f)) :
        f \in {g \in DirPool : IsPdfName(g) /\ extractYearFromFilename(g) # NoYear}}

ResultArrays ==
    {a \in SeqsUpTo(ResultPool, MaxResults) :
        \A i, j \in 1..Len(a) : i # j => a[i] # a[j]}

(* The orders of an array in which results of one year keep their order. *)
Reorderings(a) ==
    {b \in ResultArrays :
        /\ Len(b) = Len(a)
        /\ {b[k] : k \in 1..Len(b)} = {a[k] : k \in 1..Len(a)}
        /\ \A i, j \in 1..Len(a) :
              (i < j /\ a[i].year = a[j].year) =>
                  \E k, l \in 1..Len(b) : k < l /\ b[k] = a[i] /\ b[l] = a[j]}

(* The array is handed over in another order. *)
Reorder ==
    /\ Len(out) < MaxApplications
    /\ \E b \in Reorderings(arg) : b # arg /\ arg' = b
    /\ UNCHANGED <<out, requests>>
    /\ UNCHANGED <<dlVars, parseVars>>

(* The consolidation step runs on the array; sort() has reordered the array
   itself when the step returns. *)
ApplyConsolidate ==
    /\ Len(out) < MaxApplications
    /\ out' = Append(out, [input |-> arg,
                           record |-> Consolidate(arg, Len(out) + 1)])
    /\ arg' = SortByYearDesc(arg)
    /\ UNCHANGED requests
    /\ UNCHANGED <<dlVars, parseVars>>

InitConsolidate ==
    /\ DownloadOff
    /\ ParseOff
    /\ requests = <<>>
    /\ arg \in ResultArrays
    /\ out = <<>>

NextConsolidate == Reorder \/ ApplyConsolidate

SpecConsolidate == InitConsolidate /\ [][NextConsolidate]_vars

-----------------------------------------------------------------------------
(* CSVExporter.generateComparativeCSV and the route POST /api/csv/compare   *)

toUpperCase(c) ==
    IF \E i \in 1..Len(LowerCase) : LowerCase[i] = c
    THEN UpperCase[CHOOSE i \in 1..Len(LowerCase) : LowerCase[i] = c]
    ELSE c

(* companyCode.split(/[-_]/): the words, the last one being built in word *)
RECURSIVE SplitFrom(_, _, _)
SplitFrom(words, word, rest) ==
    IF rest = <<>> THEN Append(words, word)
    ELSE IF Head(rest) \in {"-", "_"}
         THEN SplitFrom(Append(words, word), <<>>, Tail(rest))
         ELSE SplitFrom(words, Append(word, Head(rest)), Tail(rest))

(* word.charAt(0).toUpperCase() + word.slice(1) *)
Capitalize(word) ==
    IF word = <<>> THEN <<>> ELSE <<toUpperCase(Head(word))>> \o Tail(word)

formatCompanyName(companyCode) ==
    LET words == SplitFrom(<<>>, <<>>, companyCode)
    IN Join([i \in 1..Len(words) |-> Capitalize(words[i])], <<" ">>)

(* Array.from(allYears).sort() *)
RECURSIVE SortYears(_)
SortYears(set) ==
    IF set = {} THEN <<>>
    ELSE LET least == CHOOSE y \in set : \A z \in set : y <= z
         IN <<least>> \o SortYears(set \ {least})

(* data?.statements[statementType][year]?.[item] || "N/A" *)
CompanyValue(store, company, statementType, year, item) ==
    IF company \in DOMAIN store
    THEN ValueOrNA(store[company].statements[statementType], year, item)
    ELSE Str(NA)

RECURSIVE FillCompanies(_, _, _, _, _, _)
FillCompanies(row, store, companies, statementType, year, item) ==
    IF companies = <<>> THEN row
    ELSE FillCompanies(
             SetCell(row, formatCompanyName(Head(companies)),
                     CompanyValue(store, Head(companies), statementType, year, item)),
             store, Tail(companies), statementType, year, item)

(* The items of a statement type over the loaded companies and all the
   years of their statement maps. *)
AllItems(companyData, statementType) ==
    UNION {UNION {DOMAIN statementData[y] : y \in DOMAIN statementData} :
             statementData \in {companyData[c].statements[statementType] :
                                   c \in DOMAIN companyData}}

(* The rows of one statement type: one per item and year. *)
ComparativeRows(companyData, companies, statementType, sortedYears) ==
    LET items == SortTexts(AllItems(companyData, statementType))
        n == Len(sortedYears)
    IN [k \in 1..(Len(items) * n) |->
           LET item == items[((k - 1) \div n) + 1]
               year == sortedYears[((k - 1) % n) + 1]
           IN FillCompanies(
                  (StatementKey :> Str(formatStatementName(statementType)))
                      @@ (ItemKey :> Str(item))
                      @@ (YearKey :> Str(NatToText(year))),
                  companyData, companies, statementType, year, item)]

(* The companies of the request whose consolidated record exists. *)
Loaded(companies, store) ==
    [c \in Years(companies) \cap DOMAIN store |-> store[c]]

generateComparativeCSV(companies, store) ==
    LET companyData == Loaded(companies, store)
        sortedYears ==
            SortYears(UNION {Years(companyData[c].years_covered) :
                                c \in DOMAIN companyData})
        headers == <<StatementKey, ItemKey, YearKey>>
                       \o [i \in 1..Len(companies) |-> formatCompanyName(companies[i])]
        rows == ComparativeRows(companyData, companies, StatementOrder[1], sortedYears)
                  \o ComparativeRows(companyData, companies, StatementOrder[2], sortedYears)
                  \o ComparativeRows(companyData, companies, StatementOrder[3], sortedYears)
    IN IF DOMAIN companyData = {}
       THEN [thrown |-> "No compiled data found for the specified companies",
             headers |-> <<>>, rows |-> <<>>, text |-> <<>>]
       ELSE [thrown |-> "none", headers |-> headers, rows |-> rows,
             text |-> rowsToCSV(headers, rows)]

(* Company codes of requests and of compiled_data/<code>.json *)
CodePool ==
    {<<"a", "b">>, <<"a", "-", "b">>, <<"a", "_", "b">>, <<"y", "e", "a", "r">>}

(* Consolidated records a parse run writes. *)
RecordPool == {Consolidate(<<r>>, 1) : r \in ResultPool}

Stores == UNION {[codes -> RecordPool] : codes \in SUBSET CodePool}

Requests ==
    {c \in SeqsUpTo(CodePool, MaxCompanies) : Len(c) >= 1}

ApplyComparative ==
    /\ out = <<>>
    /\ out' = <<generateComparativeCSV(arg.companies, arg.store)>>
    /\ UNCHANGED <<arg, requests>>
    /\ UNCHANGED <<dlVars, parseVars>>

InitCompare ==
    /\ DownloadOff
    /\ ParseOff
    /\ requests = <<>>
    /\ arg \in [companies : Requests, store : Stores]
    /\ out = <<>>

NextCompare == ApplyComparative

SpecCompare == InitCompare /\ [][NextCompare]_vars

-----------------------------------------------------------------------------
(* rowsToCSV on tables whose headers and cells hold the characters that     *)
(* escapeCSVField looks for, and the reading of its output as CSV           *)

FieldChars == {"a", Comma, Quote, LF, CR}

Fields == SeqsUpTo(FieldChars, MaxFieldLen)

PlainA == <<"a">>
PlainB == <<"b">>

(* A table with two columns and one row: the first header and the last cell
   are the fields of the input. *)
TableHeaders(input) == <<input.first, PlainB>>
TableRows(input) == <<(input.first :> Str(PlainA)) @@ (PlainB :> Str(input.last))>>

ExportTable ==
    /\ out = <<>>
    /\ out' = <<[text |-> rowsToCSV(TableHeaders(arg), TableRows(arg))]>>
    /\ UNCHANGED <<arg, requests>>
    /\ UNCHANGED <<dlVars, parseVars>>

InitEscape ==
    /\ DownloadOff
    /\ ParseOff
    /\ requests = <<>>
    /\ arg \in [first : Fields, last : Fields]
    /\ out = <<>>

NextEscape == ExportTable

SpecEscape == InitEscape /\ [][NextEscape]_vars

-----------------------------------------------------------------------------
(* isAnnualReport applied to one link *)

(* Links with every combination of what isAnnualReport looks for; each is
   the reading of some text and URL, e.g. form without annualKw is a text
   with "20-F" and not "form 20-f", amend without excludeKw a text with "/a",
   annualKw without annualWord "integrated report". *)
ClassifierPool ==
    {Link(form, amend, annualKw, excludeKw, annualWord, years, ".pdf", FALSE) :
        form \in BOOLEAN, amend \in BOOLEAN, annualKw \in BOOLEAN,
        excludeKw \in BOOLEAN, annualWord \in BOOLEAN,
        years \in {<<>>, <<2022>>, <<2013, 2022>>}}

Classify ==
    /\ out = <<>>
    /\ out' = <<isAnnualReport(arg)>>
    /\ UNCHANGED <<arg, requests>>
    /\ UNCHANGED <<dlVars, parseVars>>

InitClassify ==
    /\ DownloadOff
    /\ ParseOff
    /\ requests = <<>>
    /\ arg \in ClassifierPool
    /\ out = <<>>

NextClassify == Classify

SpecClassify == InitClassify /\ [][NextClassify]_vars

-----------------------------------------------------------------------------
(* extractDirectPdfUrl applied to one viewer page *)

Resolve ==
    /\ out = <<>>
    /\ out' = <<extractDirectPdfUrl(arg)>>
    /\ UNCHANGED <<arg, requests>>
    /\ UNCHANGED <<dlVars, parseVars>>

InitResolve ==
    /\ DownloadOff
    /\ ParseOff
    /\ requests = <<>>
    /\ arg \in ViewerPages
    /\ out = <<>>

NextResolve == Resolve

SpecResolve == InitResolve /\ [][NextResolve]_vars

-----------------------------------------------------------------------------
(* parseFinancialStatements on a reports directory that holds one document  *)

(* Document names by the 20dd tokens they contain, from the year before the
   oldest year the parser accepts to the year after the newest. *)
NamedFiles ==
    {File("annual-report.pdf", years, ".pdf") :
        years \in SeqsUpTo((ExtractMinYear - 1)..(ExtractMaxYear + 1), MaxTokens)}

(* The loop body for the one file, then the consolidation: the file is
   skipped when its name gives no year, and the run throws when nothing was
   parsed. *)
ParseOnlyFile ==
    /\ out = <<>>
    /\ LET year == extractYearFromFilename(arg)
           results == IF year = NoYear THEN <<>>
                      ELSE <<parsePDFWithAI(arg, year, "ok").result>>
       IN out' = IF NoResults(results) THEN <<NoCompiled>>
                 ELSE <<[written |-> TRUE] @@ Consolidate(results, 1)>>
    /\ UNCHANGED <<arg, requests>>
    /\ UNCHANGED <<dlVars, parseVars>>

InitFileYear ==
    /\ DownloadOff
    /\ ParseOff
    /\ requests = <<>>
    /\ arg \in NamedFiles
    /\ out = <<>>

NextFileYear == ParseOnlyFile

SpecFileYear == InitFileYear /\ [][NextFileYear]_vars

-----------------------------------------------------------------------------
(* parsePDFWithAI: the JSON extraction applied to one service response      *)

OpenBrace == "{"
CloseBrace == "}"

(* A response is text over braces and one other character, which stands for
   whatever else the text holds: a word of prose, or a key with its value
   inside an object. *)
ResponseChars == {"a", OpenBrace, CloseBrace}

(* Well-formed objects: one level, and with a nested object as the schema
   has them. *)
ObjectTexts ==
    {<<OpenBrace, "a", CloseBrace>>,
     <<OpenBrace, "a", OpenBrace, "a", CloseBrace, CloseBrace>>}

Responses ==
    [prefix : SeqsUpTo(ResponseChars, MaxProse),
     object : ObjectTexts,
     suffix : SeqsUpTo(ResponseChars, MaxProse)]

Positions(text, c) == {i \in 1..Len(text) : text[i] = c}

Min(S) == CHOOSE x \in S : \A y \in S : x <= y
Max(S) == CHOOSE x \in S : \A y \in S : x >= y

NoMatch == [found |-> FALSE, text |-> <<>>]

(* aiResponse.match(/\{[\s\S]*\}/): from the first opening brace of the
   response to the last closing brace after it; the star is greedy. *)
MatchBraces(aiResponse) ==
    LET opens == Positions(aiResponse, OpenBrace)
        closes == IF opens = {} THEN {}
                  ELSE {j \in Positions(aiResponse, CloseBrace) : j > Min(opens)}
    IN IF closes = {} THEN NoMatch
       ELSE [found |-> TRUE,
             text |-> SubSeq(aiResponse, Min(opens), Max(closes))]

(* The nesting depth after each character of the text. *)
RECURSIVE Depth(_, _)
Depth(text, i) ==
    IF i = 0 THEN 0
    ELSE Depth(text, i - 1)
            + (IF text[i] = OpenBrace THEN 1
               ELSE IF text[i] = CloseBrace THEN -1 ELSE 0)

(* JSON.parse accepts the text: it is one object, closed by its last
   character and not before, and every object inside it follows a key. *)
IsJsonObject(text) ==
    /\ Len(text) >= 2
    /\ text[1] = OpenBrace
    /\ Depth(text, Len(text)) = 0
    /\ \A i \in 1..(Len(text) - 1) : Depth(text, i) > 0
    /\ \A i \in 2..Len(text) : text[i] = OpenBrace => text[i - 1] = "a"

(* jsonString = jsonMatch ? jsonMatch[0] : aiResponse; JSON.parse(jsonString)
   inside the try whose catch returns null. *)
ExtractJson(aiResponse) ==
    LET jsonMatch == MatchBraces(aiResponse)
        jsonString == IF jsonMatch.found THEN jsonMatch.text ELSE aiResponse
    IN IF IsJsonObject(jsonString)
       THEN [parsed |-> TRUE, text |-> jsonString]
       ELSE [parsed |-> FALSE, text |-> <<>>]

ResponseText(parts) == parts.prefix \o parts.object \o parts.suffix

Extract ==
    /\ out = <<>>
    /\ out' = <<ExtractJson(ResponseText(arg))>>
    /\ UNCHANGED <<arg, requests>>
    /\ UNCHANGED <<dlVars, parseVars>>

InitExtract ==
    /\ DownloadOff
    /\ ParseOff
    /\ requests = <<>>
    /\ arg \in Responses
    /\ out = <<>>

NextExtract == Extract

SpecExtract == InitExtract /\ [][NextExtract]_vars

-----------------------------------------------------------------------------
(* parsePDFWithAI: the structure validation applied to one parsed answer    *)

(* What JSON.parse can hold under a top-level key: nothing (the key is
   missing), null, a string (empty or not), or an object. *)
JsonKinds == {"undefined", "null", "empty-string", "string", "object"}

ParsedAnswers == [StatementTypes -> JsonKinds]

(* !value is false: JavaScript truthiness of a parsed JSON value. *)
Truthy(value) == value \notin {"undefined", "null", "empty-string"}

(* The validation and the return that follows it: null, or the result with
   the three values as they were parsed. *)
ValidateStructure(answer) ==
    IF \/ ~Truthy(answer["income_statement"])
       \/ ~Truthy(answer["balance_sheet"])
       \/ ~Truthy(answer["cash_flow"])
    THEN [ok |-> FALSE, statements |-> [t \in StatementTypes |-> "undefined"]]
    ELSE [ok |-> TRUE, statements |-> [t \in StatementTypes |-> answer[t]]]

Validate ==
    /\ out = <<>>
    /\ out' = <<ValidateStructure(arg)>>
    /\ UNCHANGED <<arg, requests>>
    /\ UNCHANGED <<dlVars, parseVars>>

InitValidate ==
    /\ DownloadOff
    /\ ParseOff
    /\ requests = <<>>
    /\ arg \in ParsedAnswers
    /\ out = <<>>

NextValidate == Validate

SpecValidate == InitValidate /\ [][NextValidate]_vars

-----------------------------------------------------------------------------
(* Discovery claims *)

Accepted(link) ==
    /\ isAnnualReport(link)
    /\ extractYear(link) \in targetYears

\* C1: the retained candidate list never holds two candidates with the same
\* fiscal year, at any point of the filter loop or after the sort.
C1_UniqueYears ==
    \A i, j \in 1..Len(validReports) :
        i # j => validReports[i].year # validReports[j].year

C1_Witness ==
    /\ pc = "download"
    /\ Len(validReports) >= 2
    /\ \E i, j \in 1..Len(allPdfLinks) :
          /\ i < j
          /\ Accepted(allPdfLinks[i]) /\ Accepted(allPdfLinks[j])
          /\ extractYear(allPdfLinks[i]) = extractYear(allPdfLinks[j])

\* C2: after the sort the candidate list is in descending year order, has at
\* most 10 entries and every year lies in [currentYear-9, currentYear].
C2_SortedCappedWindowed ==
    pc = "download" =>
        /\ \A i \in 1..(Len(validReports) - 1) :
              validReports[i].year > validReports[i + 1].year
        /\ Len(validReports) <= 10
        /\ \A i \in 1..Len(validReports) :
              /\ validReports[i].year >= currentYear - 9
              /\ validReports[i].year <= currentYear

C2_Witness ==
    /\ pc = "download"
    /\ Len(validReports) = 10
    /\ Len(allPdfLinks) > 10
    /\ extractYear(allPdfLinks[1]) < extractYear(allPdfLinks[2])
    /\ \E i \in 1..Len(allPdfLinks) : extractYear(allPdfLinks[i]) = 2014

(* The first year token of a link that lies inside the window. *)
RECURSIVE FirstInWindow(_)
FirstInWindow(years) ==
    IF years = <<>> THEN NoYear
    ELSE IF Head(years) \in targetYears THEN Head(years)
    ELSE FirstInWindow(Tail(years))

\* C19: every link the filter loop has passed that the classifier accepts and
\* that carries a year token inside the window [currentYear-9, currentYear]
\* is tagged with the first such token: that year is among the retained
\* candidates; a link is dropped for lack of a year only when none of its
\* tokens lies inside the window.
C19_FirstYearInsideWindow ==
    \A i \in 1..Len(allPdfLinks) :
        (/\ i < linkIdx
         /\ isAnnualReport(allPdfLinks[i])
         /\ FirstInWindow(allPdfLinks[i].years) # NoYear)
            => HasYear(validReports, FirstInWindow(allPdfLinks[i].years))

\* C18: isAnnualReport accepts a link exactly when the link matches an
\* include pattern (an annual-report keyword or a filing-form code that is
\* not an amendment) and matches no exclude keyword; a link with an exclude
\* keyword is never accepted.
C18_ExcludeKeywordAlwaysWins ==
    \A k \in 1..Len(out) :
        out[k] = (/\ arg.form \/ arg.annualKw
                  /\ ~(arg.form /\ arg.amend)
                  /\ ~arg.excludeKw)

-----------------------------------------------------------------------------
(* Download claims *)

DownloadFailed(year) ==
    <<year, "net-error">> \in log \/ <<year, "non-binary">> \in log

\* C6: when discovery ends with zero qualifying candidates, the run ends in
\* a discovery failure that the caller receives as an error.
C6_ZeroCandidatesIsError ==
    (pc = "responded" /\ validReports = <<>>) =>
        (response.status >= 400 /\ ~response.success)

\* C9: after a download failed on a network error or a non-binary
\* content-type, no file is at that year's target path, the year is not among
\* the downloaded years, and the loop goes on with the remaining candidates.
C9_FailedDownloadLeavesNoFile ==
    \A i \in 1..Len(validReports) :
        DownloadFailed(validReports[i].year) =>
            /\ FilePath(validReports[i]) \notin disk
            /\ validReports[i].year \notin Years(downloadedYears)
            /\ pc # "hung"

\* C10: when a document of the year is already on disk as the loop reaches
\* the year, the run performs no viewer resolution and no fetch for it and
\* reports the year as downloaded.
C10_ExistingArtifactReused ==
    \A i \in 1..Len(validReports) :
        <<validReports[i].year, "had-artifact">> \in log =>
            /\ <<validReports[i].year, "resolve">> \notin log
            /\ <<validReports[i].year, "get">> \notin log
            /\ (i < dlIdx => validReports[i].year \in Years(downloadedYears))

\* C25: when a download run has answered, the report directory holds at most
\* one document per fiscal year, and every document it holds is one that the
\* parser's file listing keeps (its name ends in .pdf, in any case).
C25_OneDocumentPerYear ==
    pc = "responded" =>
        /\ \A f, g \in disk : f.year = g.year => f = g
        /\ \A f \in disk : IsPdfName(f)

\* C30: the main page is scanned for links only in a run whose iframes gave
\* no raw link. In a run in which an iframe gave a raw link the main page is
\* never scanned, whatever the filter makes of the iframe links: the run can
\* end without a candidate.
C30_MainPageOnlyWithoutIframeLinks ==
    /\ ~(FromIframe \in log /\ FromMainPage \in log)
    /\ FromMainPage \in log => pc # "iframe" /\ iframeSources = 0
    /\ (FromIframe \in log /\ pc \notin {"iframes", "iframe"}) =>
          allPdfLinks # <<>>

C30_Witness ==
    /\ pc = "responded"
    /\ FromIframe \in log
    /\ FromMainPage \notin log
    /\ allPdfLinks # <<>>
    /\ validReports = <<>>

\* C12: the browser a run launched is never left open once the route has
\* its result or its error: close was invoked on every path that returns or
\* throws; and an iframe page or an extractor page is open only while its own
\* iframe or candidate is being handled, never at the next unit.
C12_BrowserReleasedOnEveryExit ==
    /\ pc = "responded" => browser # "open"
    /\ pc \notin {"iframe", "resolve"} => auxPages = 0
    /\ auxPages <= 1

C12_Witness ==
    /\ pc = "responded"
    /\ browser = "closed"
    /\ \E year \in targetYears : <<year, "resolve">> \in log

-----------------------------------------------------------------------------
(* Concurrency claims *)

\* C11: no two requests for one company are at any time both writing the
\* document of the same year: at most one fetch has the write stream of a
\* target path open.
C11_OneWriterPerArtifact ==
    \A path \in disk : Cardinality(Writers(path)) <= 1

(* The candidates of a viewer page whose content-type is verified binary. *)
Verified(viewer) ==
    {i \in 1..Len(viewer.candidates) :
        viewer.loads /\ viewer.candidates[i] = "binary"}

\* C20: extractDirectPdfUrl returns the first candidate, in the order of the
\* strategies, whose content-type was verified to be binary, passing over
\* candidates that fail the verification; it returns no URL exactly when no
\* strategy yields a verified URL, and never a URL that was not verified.
C20_ResolverReturnsFirstVerified ==
    \A k \in 1..Len(out) :
        IF Verified(arg) = {}
        THEN ~out[k].found
        ELSE /\ out[k].found
             /\ out[k].verified
             /\ out[k].candidate \in Verified(arg)
             /\ \A i \in Verified(arg) : out[k].candidate <= i

-----------------------------------------------------------------------------
(* Parse claims *)

FileYears(names) ==
    {extractYearFromFilename(files[i]) :
        i \in {k \in 1..Len(files) : files[k].name \in names}}

(* The first file of the listing, of the given year, that was parsed. *)
FirstParsed(year) ==
    CHOOSE i \in 1..Len(files) :
        /\ files[i].name \in succeeded
        /\ extractYearFromFilename(files[i]) = year
        /\ \A j \in 1..(i - 1) :
              ~(files[j].name \in succeeded
                /\ extractYearFromFilename(files[j]) = year)

(* The first result of the given year in the sorted results. *)
FirstResult(year) ==
    CHOOSE i \in 1..Len(sortedResults) :
        /\ sortedResults[i].year = year
        /\ \A j \in 1..(i - 1) : sortedResults[j].year # year

\* C3: while normalizeFinancialData runs and when it ends, the results are
\* processed in descending year order, and for each statement type every year
\* written holds the value of the first result of that year (the first
\* document of that year that was parsed); a later result of the year never
\* replaces it.
C3_FirstResultPerYearWins ==
    ppc = "normalize" =>
        /\ \A i \in 1..(Len(sortedResults) - 1) :
              sortedResults[i].year >= sortedResults[i + 1].year
        /\ \A t \in StatementTypes :
              /\ DOMAIN statements[t] =
                    {sortedResults[i].year : i \in 1..(normIdx - 1)}
              /\ \A y \in DOMAIN statements[t] :
                    /\ statements[t][y] = sortedResults[FirstResult(y)][t]
                    /\ statements[t][y] = StatementOf(files[FirstParsed(y)], t)

C3_Witness ==
    /\ ppc = "normalize"
    /\ normIdx > Len(sortedResults)
    /\ \E i, j \in 1..Len(sortedResults) :
          /\ i < j
          /\ sortedResults[i].year = sortedResults[j].year
          /\ sortedResults[i].filename # sortedResults[j].filename

\* C4: a run in which no document was extracted ends in an error answer and
\* leaves compiled_data/<company>.json as the run found it.
C4_NoArtifactWhenNothingParsed ==
    (ppc = "responded" /\ succeeded = {}) =>
        /\ ~presponse.success
        /\ presponse.status >= 400
        /\ compiled = compiledAtStart

C4_Witness ==
    /\ ppc = "responded"
    /\ succeeded = {}
    /\ attempted # {}
    /\ presponse.status = 422
    /\ compiledAtStart.written

\* C5: a failure on one document skips only that document: every listed
\* document with a year is handed to the parser, and when one succeeds the
\* run writes a consolidated record whose years are those that succeeded.
C5_LocalFailureSkipsOnlyThatDocument ==
    (ppc = "responded" /\ files # <<>>) =>
        /\ attempted =
              {files[i].name :
                  i \in {k \in 1..Len(files) :
                            extractYearFromFilename(files[k]) # NoYear}}
        /\ succeeded # {} =>
              /\ presponse.success
              /\ compiled.written
              /\ compiled.parsed_at = pruns
              /\ \A t \in StatementTypes :
                    DOMAIN compiled.statements[t] = FileYears(succeeded)
              /\ Years(compiled.years_covered) = FileYears(succeeded)

C5_Witness ==
    /\ ppc = "responded"
    /\ compiled.parsed_at = pruns
    /\ \E i, j \in 1..Len(files) :
          /\ i < j
          /\ files[i].name \in attempted \ succeeded
          /\ files[j].name \in succeeded

\* C7: an authentication failure of the extraction service aborts the run,
\* is answered as an authentication error, and no document is sent to the
\* service after it.
C7_AuthFailureIsFatal ==
    authFailedAt > 0 =>
        /\ Len(called) = authFailedAt
        /\ ppc # "normalize"
        /\ ppc = "responded" =>
              presponse.error = "AI service authentication failed"

\* C8: no document is sent to the service twice in a run, and a run in which
\* the service answered with a rate limit is answered as rate limited (429).
C8_RateLimitReportedNotRetried ==
    /\ \A i, j \in 1..Len(called) : i # j => called[i] # called[j]
    /\ (rateLimited /\ ppc = "responded") => presponse.status = 429

\* C21: the step of the per-file loop that finds a document's text empty or
\* shorter than 1,000 characters returns no result, sends nothing to the
\* extraction service, writes no per-year record, and leaves the loop at the
\* next document.
C21_UnreadableTextSkipped ==
    [][(last' # last /\ last'.outcome \in {"empty-text", "short-text"})
          => /\ called' = called
             /\ parseResults' = parseResults
             /\ succeeded' = succeeded
             /\ parsedData' = parsedData
             /\ ppc' = "loop"
             /\ fileIdx' = fileIdx + 1]_vars

C21_Witness ==
    /\ ppc = "loop"
    /\ last.outcome = "short-text"
    /\ last.file = files[1].name
    /\ fileIdx = 2
    /\ Len(files) = 2
    /\ called = <<>>
    /\ \E r \in parsedData : r.year = extractYearFromFilename(files[1])

\* C22: an answer that lacks one of income_statement, balance_sheet and
\* cash_flow yields no result, and a result that is accepted carries an
\* object (a statement map) under each of the three keys.
C22_ResultCarriesThreeMaps ==
    \A k \in 1..Len(out) :
        /\ (\E t \in StatementTypes : arg[t] = "undefined") => ~out[k].ok
        /\ out[k].ok =>
              \A t \in StatementTypes : out[k].statements[t] = "object"

\* C23: every fiscal year that is a key of a statement map of the
\* consolidated record, or is listed in years_covered, lies within the window
\* of the ten years that end with the current year, whatever the name of the
\* document in the reports directory.
C23_YearsInsideWindow ==
    \A k \in 1..Len(out) :
        out[k].written =>
            /\ \A t \in StatementTypes :
                  DOMAIN out[k].statements[t] \subseteq targetYears
            /\ Years(out[k].years_covered) \subseteq targetYears

\* C24: when a run has written the consolidated record, the record covers
\* every fiscal year that has a per-year record in parsed_data, records of
\* earlier runs included: each such year is a key of every statement map and
\* is listed in years_covered.
C24_RebuiltFromAllYearRecords ==
    (ppc = "responded" /\ presponse.success) =>
        \A r \in parsedData :
            /\ \A t \in StatementTypes : r.year \in DOMAIN compiled.statements[t]
            /\ r.year \in Years(compiled.years_covered)

\* C26: for a response made of any text, then a well-formed object, then any
\* text, braces allowed in both texts, the extraction parses an object and
\* the object it parses is exactly the one between the two texts.
C26_ParsesTheEmbeddedObject ==
    \A k \in 1..Len(out) :
        /\ out[k].parsed
        /\ out[k].text = arg.object

\* C27: when a run has written the consolidated record, for every fiscal
\* year of the record the per-year record in parsed_data holds the same
\* income_statement, balance_sheet and cash_flow maps as the consolidated
\* record holds for the year.
C27_YearRecordMatchesConsolidated ==
    (ppc = "responded" /\ presponse.success) =>
        \A t \in StatementTypes : \A y \in DOMAIN compiled.statements[t] :
            \E r \in parsedData : r.year = y /\ r[t] = compiled.statements[t][y]

-----------------------------------------------------------------------------
\* C13: when a parse run has written the consolidated record, years_covered
\* lists in strictly ascending order, each once, exactly the years of the
\* documents that were parsed in the run, and total_files is the number of
\* documents that were parsed.
C13_YearsCoveredIsSortedSet ==
    (ppc = "responded" /\ presponse.status = 200) =>
        /\ \A i \in 1..(Len(compiled.years_covered) - 1) :
              compiled.years_covered[i] < compiled.years_covered[i + 1]
        /\ Years(compiled.years_covered) = FileYears(succeeded)
        /\ compiled.total_files = Cardinality(succeeded)

-----------------------------------------------------------------------------
(* Consolidation claims *)

\* C14: every application of the consolidation step to one collection of
\* results, whatever the order in which the results are handed over as long
\* as results of one year keep their relative order, and whether or not an
\* earlier application has already sorted the array, yields the same
\* statements, years_covered and total_files; only parsed_at differs.
C14_ConsolidationIdempotent ==
    \A i, j \in 1..Len(out) :
        /\ out[i].record.statements = out[j].record.statements
        /\ out[i].record.years_covered = out[j].record.years_covered
        /\ out[i].record.total_files = out[j].record.total_files

C14_Witness ==
    /\ Len(out) >= 2
    /\ out[1].input # out[2].input
    /\ out[1].record.parsed_at # out[2].record.parsed_at
    /\ \E i, j \in 1..Len(arg) : i # j /\ arg[i].year = arg[j].year
    /\ \E i, j \in 1..Len(arg) : arg[i].year # arg[j].year

-----------------------------------------------------------------------------
(* Export claims *)

\* C15: the table generateCSV makes of the consolidated record has the header
\* Statement, Item and then the covered years in strictly ascending order,
\* each once; every cell under a year is non-empty, and is "N/A" where the
\* record has no value for the item in that year.
C15_CompanyTableShape ==
    \A k \in 1..Len(out) :
        LET table == out[k]
            yearHeaders == SubSeq(table.headers, 3, Len(table.headers))
        IN /\ SubSeq(table.headers, 1, 2) = <<StatementKey, ItemKey>>
           /\ \A i \in 1..(Len(yearHeaders) - 1) :
                 TextLess(yearHeaders[i], yearHeaders[i + 1])
           /\ \A r \in 1..Len(table.rows), i \in 1..Len(yearHeaders) :
                 /\ CellText(table.rows[r], yearHeaders[i]) # <<>>
                 /\ (\A t \in StatementTypes : \A y \in DOMAIN arg.statements[t] :
                        (/\ NatToText(y) = yearHeaders[i]
                         /\ formatStatementName(t) = table.rows[r][StatementKey].text
                         /\ ~HasValue(arg.statements[t], y,
                                      table.rows[r][ItemKey].text))
                            => CellText(table.rows[r], yearHeaders[i]) = NA)

\* C28: the table generateCSV makes of the consolidated record shows every
\* stored value: for each statement, year and item that has a value, the
\* item's row holds the value's text under the year; and a cell is "N/A" only
\* where the record has no value or the value is "N/A" itself.
C28_StoredValuesPreserved ==
    \A k \in 1..Len(out) :
        LET table == out[k]
            RowOf(r, t, item) ==
                /\ table.rows[r][StatementKey].text = formatStatementName(t)
                /\ table.rows[r][ItemKey].text = item
        IN \A t \in StatementTypes : \A y \in DOMAIN arg.statements[t] :
              /\ \A item \in DOMAIN arg.statements[t][y] :
                    \E r \in 1..Len(table.rows) :
                        /\ RowOf(r, t, item)
                        /\ CellText(table.rows[r], NatToText(y)) =
                              arg.statements[t][y][item].text
              /\ \A r \in 1..Len(table.rows) :
                    (/\ table.rows[r][StatementKey].text = formatStatementName(t)
                     /\ CellText(table.rows[r], NatToText(y)) = NA)
                        => \/ ~HasValue(arg.statements[t], y,
                                        table.rows[r][ItemKey].text)
                           \/ arg.statements[t][y][table.rows[r][ItemKey].text].text
                                  = NA

(* What the comparative table is to show for a company in a row. *)
StoredOrNA(store, company, statementType, year, item) ==
    IF /\ company \in DOMAIN store
       /\ HasValue(store[company].statements[statementType], year, item)
    THEN store[company].statements[statementType][year][item].text
    ELSE NA

ColumnText(table, r, i) == CellText(table.rows[r], table.headers[i])

\* C16: the comparative table has the columns Statement, Item, Year and then
\* one column per requested company in request order; its rows are one per
\* statement, item and year over the items and years of the loaded companies;
\* and in every row the cell in a company's column is the value that company
\* has stored for the row's statement, year and item, or "N/A" where it has
\* none, also for a requested company without a consolidated record.
C16_ComparativeTableShape ==
    \A k \in 1..Len(out) :
        LET table == out[k]
            companyData == Loaded(arg.companies, arg.store)
            years == UNION {Years(companyData[c].years_covered) :
                               c \in DOMAIN companyData}
            triples == {tiy \in StatementTypes \X
                                (UNION {AllItems(companyData, t) : t \in StatementTypes})
                                \X years :
                           tiy[2] \in AllItems(companyData, tiy[1])}
            Shows(r, tiy) ==
                /\ ColumnText(table, r, 1) = formatStatementName(tiy[1])
                /\ ColumnText(table, r, 2) = tiy[2]
                /\ ColumnText(table, r, 3) = NatToText(tiy[3])
                /\ \A i \in 1..Len(arg.companies) :
                      ColumnText(table, r, 3 + i) =
                          StoredOrNA(arg.store, arg.companies[i],
                                     tiy[1], tiy[3], tiy[2])
        IN table.thrown = "none" =>
              /\ Len(table.headers) = 3 + Len(arg.companies)
              /\ Len(table.rows) = Cardinality(triples)
              /\ \A tiy \in triples : \E r \in 1..Len(table.rows) : Shows(r, tiy)

\* C29: in the comparative table distinct requested company codes have
\* distinct headers, none of them Statement, Item or Year; no cell of a row
\* overwrites another; and in every row the fixed columns show the row's
\* statement, item and year while each company's column shows the value
\* filled in for that company.
C29_DistinctCompanyColumns ==
    \A k \in 1..Len(out) :
        LET table == out[k]
            companies == arg.companies
            fixed == {StatementKey, ItemKey, YearKey}
            OwnRow(r, t, item, y) ==
                /\ ColumnText(table, r, 1) = formatStatementName(t)
                /\ ColumnText(table, r, 2) = item
                /\ ColumnText(table, r, 3) = NatToText(y)
                /\ \A i \in 1..Len(companies) :
                      ColumnText(table, r, 3 + i) =
                          CompanyValue(arg.store, companies[i], t, y, item).text
        IN table.thrown = "none" =>
              /\ \A i, j \in 1..Len(companies) :
                    companies[i] # companies[j] =>
                        table.headers[3 + i] # table.headers[3 + j]
              /\ \A i \in 1..Len(companies) : table.headers[3 + i] \notin fixed
              /\ \A r \in 1..Len(table.rows) :
                    /\ Cardinality(DOMAIN table.rows[r]) =
                          3 + Cardinality(Years(companies))
                    /\ \E t \in StatementTypes :
                          \E item \in AllItems(Loaded(companies, arg.store), t) :
                             \E y \in targetYears : OwnRow(r, t, item, y)

-----------------------------------------------------------------------------
(* Reading CSV: fields are separated by commas and records by line breaks
   (LF, CR or CR LF); a field that starts with a double quote runs to the
   closing double quote, and two double quotes inside it stand for one. *)
RECURSIVE ParseFrom(_, _, _, _, _)
ParseFrom(records, record, field, mode, rest) ==
    IF rest = <<>> THEN Append(records, Append(record, field))
    ELSE LET c == Head(rest)
             more == Tail(rest)
             afterBreak == IF c = CR /\ more # <<>> /\ Head(more) = LF
                           THEN Tail(more) ELSE more
         IN IF mode = "quoted"
            THEN IF c = Quote
                 THEN ParseFrom(records, record, field, "closed", more)
                 ELSE ParseFrom(records, record, Append(field, c), "quoted", more)
            ELSE IF c = Quote /\ mode = "closed"
            THEN ParseFrom(records, record, Append(field, c), "quoted", more)
            ELSE IF c = Quote /\ mode = "start"
            THEN ParseFrom(records, record, field, "quoted", more)
            ELSE IF c = Comma
            THEN ParseFrom(records, Append(record, field), <<>>, "start", more)
            ELSE IF c \in {LF, CR}
            THEN ParseFrom(Append(records, Append(record, field)), <<>>, <<>>,
                           "start", afterBreak)
            ELSE ParseFrom(records, record, Append(field, c), "plain", more)

ParseCSV(text) == ParseFrom(<<>>, <<>>, <<>>, "start", text)

\* C17: reading the text rowsToCSV returns as CSV gives back the headers and
\* the cells of the table, whatever commas, double quotes and line breaks
\* they contain.
C17_EscapingRoundTrips ==
    \A k \in 1..Len(out) :
        ParseCSV(out[k].text) = <<<<arg.first, PlainB>>, <<PlainA, arg.last>>>>

====
